---------------------------- MODULE Spec2Model ----------------------------
(***************************************************************************)
(* Model of the multi-model comparison and batch-analysis engine of the    *)
(* financial news analyzer (src/model_comparison_analyzer.py) together     *)
(* with the single-article entry point of src/llm_analyzer_hf.py.          *)
(*                                                                         *)
(* Python strings are sequences of one-character strings, so that          *)
(* slicing, lower(), replace(), strip() and the `in` substring test are    *)
(* computed character by character.  Confidences and scores are fixed      *)
(* point numbers: the integer k stands for k / ScoreScale.                 *)
(***************************************************************************)
EXTENDS Integers, Sequences, FiniteSets, TLC

\* ------------------------------------------------------------------------
\* Bounds of the model
\* ------------------------------------------------------------------------
MaxAliases == 2
MaxBatch == 2
MaxCands == 2
ScoreScale == 100

\* ------------------------------------------------------------------------
\* Python string primitives
\* ------------------------------------------------------------------------
UpperChars == <<"A", "B", "C", "D", "E", "F", "G", "H", "I", "J", "K", "L", "M",
                "N", "O", "P", "Q", "R", "S", "T", "U", "V", "W", "X", "Y", "Z">>

LowerChars == <<"a", "b", "c", "d", "e", "f", "g", "h", "i", "j", "k", "l", "m",
                "n", "o", "p", "q", "r", "s", "t", "u", "v", "w", "x", "y", "z">>

Whitespace == {" ", "\n", "\t"}

Min(a, b) == IF a <= b THEN a ELSE b

\* the string c repeated n times (used to build long article texts)
Rep(c, n) == [i \in 1..n |-> c]

LowerChar(c) ==
    IF \E i \in DOMAIN UpperChars : UpperChars[i] = c
    THEN LowerChars[CHOOSE i \in DOMAIN UpperChars : UpperChars[i] = c]
    ELSE c

\* str.lower()
Lower(s) == [i \in DOMAIN s |-> LowerChar(s[i])]

\* sub in s
Contains(s, sub) ==
    \E i \in 0..(Len(s) - Len(sub)) : SubSeq(s, i + 1, i + Len(sub)) = sub

IsHash(c) == c = "#"

NotHash(c) == ~IsHash(c)

\* s.replace('#', '')
RemoveHash(s) == SelectSeq(s, NotHash)

\* s.strip()
Strip(s) ==
    LET idx == {i \in DOMAIN s : s[i] \notin Whitespace}
    IN  IF idx = {} THEN <<>>
        ELSE LET lo == CHOOSE i \in idx : \A j \in idx : i <= j
                 hi == CHOOSE i \in idx : \A j \in idx : j <= i
             IN  SubSeq(s, lo, hi)

\* list(a_set): the elements of a set, each once, in an order fixed by the set
RECURSIVE ListOfSet(_)
ListOfSet(S) ==
    IF S = {} THEN <<>>
    ELSE LET x == CHOOSE y \in S : TRUE
         IN  <<x>> \o ListOfSet(S \ {x})

Range(f) == {f[i] : i \in DOMAIN f}

\* ------------------------------------------------------------------------
\* Truncation to the first 512 characters
\* ------------------------------------------------------------------------
MaxTextLen == 512

\* variant of Truncate: the text is passed on whole
TruncateNone(text) == text

\* text[:512]
Truncate(text) == SubSeq(text, 1, Min(Len(text), MaxTextLen))

\* ------------------------------------------------------------------------
\* Entity filtering
\* ------------------------------------------------------------------------
sInc == <<"i", "n", "c">>
sLtd == <<"l", "t", "d">>
sCorp == <<"c", "o", "r", "p">>
sCompany == <<"c", "o", "m", "p", "a", "n", "y">>
sCo == <<"c", "o">>

NEWS_SOURCE_BLOCKLIST ==
    { <<"r", "e", "u", "t", "e", "r", "s">>,
      <<"b", "l", "o", "o", "m", "b", "e", "r", "g">>,
      <<"c", "n", "b", "c">>,
      <<"w", "s", "j">>,
      <<"f", "i", "n", "a", "n", "c", "i", "a", "l">>,
      <<"t", "i", "m", "e", "s">>,
      <<"a", "p">>,
      <<"c", "o", "m">>,
      <<"c", "n", "n">>,
      <<"b", "b", "c">>,
      <<"n", "y", "t", "i", "m", "e", "s">>,
      <<"t", "h", "e", "g", "u", "a", "r", "d", "i", "a", "n">>,
      <<"f", "o", "r", "b", "e", "s">>,
      <<"f", "o", "r", "t", "u", "n", "e">> }

\* the generic terms rejected by NERAnalyzer._filter_companies
FilterGenericTerms == {sInc, sLtd, sCorp, sCompany, sCo}

\* the generic terms rejected by BatchModelComparison._parse_ner
ParseNerGenericTerms == {sInc, sLtd, sCorp, sCompany}

\* company.replace('#', '').strip()
CleanName(word) == Strip(RemoveHash(word))

InBlocklist(name) == \E src \in NEWS_SOURCE_BLOCKLIST : Contains(Lower(name), src)

\* variant of KeepCompany: the news-source blocklist is not consulted
KeepCompanyNoBlocklist(company_clean) ==
    /\ Len(company_clean) > 2
    /\ Lower(company_clean) \notin FilterGenericTerms

\* the condition of NERAnalyzer._filter_companies on a cleaned name
KeepCompany(company_clean) ==
    /\ Len(company_clean) > 2
    /\ Lower(company_clean) \notin FilterGenericTerms
    /\ ~InBlocklist(company_clean)

\* NERAnalyzer._filter_companies: companies is the list of raw candidates
FilterCompanies(companies) ==
    LET filtered == {CleanName(companies[i]) :
                        i \in {j \in DOMAIN companies : KeepCompany(CleanName(companies[j]))}}
    IN  ListOfSet(filtered)

\* the condition of BatchModelComparison._parse_ner on a cleaned name
KeepParsedName(name) ==
    /\ Len(name) > 2
    /\ Lower(name) \notin ParseNerGenericTerms

\* BatchModelComparison._parse_ner: ner_results is a list of entities
\* [entity_group, word]
ParseNer(ner_results) ==
    LET orgs == {i \in DOMAIN ner_results : ner_results[i].entity_group = "ORG"}
        companies == {CleanName(ner_results[i].word) :
                        i \in {j \in orgs : KeepParsedName(CleanName(ner_results[j].word))}}
    IN  [companies |-> ListOfSet(companies)]

\* ------------------------------------------------------------------------
\* Sentiment normalisation
\* ------------------------------------------------------------------------
sPositive == <<"p", "o", "s", "i", "t", "i", "v", "e">>
sNegative == <<"n", "e", "g", "a", "t", "i", "v", "e">>
sNeutral == <<"n", "e", "u", "t", "r", "a", "l">>

\* variant of ParseSentiment: the label is tested before it is lowercased
ParseSentimentCaseSensitive(result) ==
    LET label == result.label
        score == result.score
    IN  [label |-> Lower(label),
         score |-> IF Contains(label, sPositive) THEN score
                   ELSE IF Contains(label, sNegative) THEN -score
                   ELSE 0]

\* BatchModelComparison._parse_sentiment
ParseSentiment(result) ==
    LET label == Lower(result.label)
        score == result.score
    IN  [label |-> label,
         score |-> IF Contains(label, sPositive) THEN score
                   ELSE IF Contains(label, sNegative) THEN -score
                   ELSE 0]

\* variant of ParseSentimentResponse: "negative" is looked for first
ParseSentimentResponseNegativeFirst(response) ==
    LET response_lower == Lower(response)
    IN  IF Contains(response_lower, sNegative)
        THEN [label |-> sNegative, score |-> (9 * ScoreScale) \div 10, success |-> TRUE]
        ELSE IF Contains(response_lower, sPositive)
        THEN [label |-> sPositive, score |-> (9 * ScoreScale) \div 10, success |-> TRUE]
        ELSE [label |-> sNeutral, score |-> ScoreScale \div 2, success |-> TRUE]

\* PromptBasedSentimentAnalyzer._parse_sentiment_response
ParseSentimentResponse(response) ==
    LET response_lower == Lower(response)
    IN  IF Contains(response_lower, sPositive)
        THEN [label |-> sPositive, score |-> (9 * ScoreScale) \div 10, success |-> TRUE]
        ELSE IF Contains(response_lower, sNegative)
        THEN [label |-> sNegative, score |-> (9 * ScoreScale) \div 10, success |-> TRUE]
        ELSE [label |-> sNeutral, score |-> ScoreScale \div 2, success |-> TRUE]

\* ------------------------------------------------------------------------
\* String literals
\* ------------------------------------------------------------------------
S_NEGATIVE ==
    <<"N", "E", "G", "A", "T", "I", "V", "E">>

S_Positive ==
    <<"P", "o", "s", "i", "t", "i", "v", "e">>

S_Negative ==
    <<"N", "e", "g", "a", "t", "i", "v", "e">>

S_LABEL_1 ==
    <<"L", "A", "B", "E", "L", "_", "1">>

S_Nvidia ==
    <<"N", "v", "i", "d", "i", "a">>

S_Tesla ==
    <<"T", "e", "s", "l", "a">>

S_Reuters ==
    <<"R", "e", "u", "t", "e", "r", "s">>

S_HashTesla ==
    <<"#", "#", "T", "e", "s", "l", "a">>

S_IncPadded ==
    <<" ", "I", "n", "c", " ">>

S_IBM ==
    <<"I", "B", "M">>

S_AP ==
    <<"A", "P">>

S_Company ==
    <<"C", "o", "m", "p", "a", "n", "y">>

S_Apple ==
    <<"A", "p", "p", "l", "e">>

S_ThomsonReuters ==
    <<"T", "h", "o", "m", "s", "o", "n", " ", "R", "e", "u", "t", "e", "r", "s">>

S_Co ==
    <<"C", "o">>

S_HashOnly ==
    <<" ", " ", "#", "#", " ", " ">>

R_PositiveOutlook ==
    <<"P", "o", "s", "i", "t", "i", "v", "e", " ", "o", "u", "t", "l", "o", "o", "k", ".">>

R_NotNegative ==
    <<"N", "o", "t", " ", "n", "e", "g", "a", "t", "i", "v", "e", ",", " ", "r", "a", "t", "h", "e", "r", " ", "p", "o", "s", "i", "t", "i", "v", "e">>

R_NegativeNotPositive ==
    <<"N", "e", "g", "a", "t", "i", "v", "e", ",", " ", "n", "o", "t", " ", "p", "o", "s", "i", "t", "i", "v", "e">>

R_Mixed ==
    <<"M", "i", "x", "e", "d">>

R_IsNeutral ==
    <<"T", "h", "e", " ", "s", "e", "n", "t", "i", "m", "e", "n", "t", " ", "i", "s", " ", "N", "e", "u", "t", "r", "a", "l">>

PromptPrefix ==
    <<"A", "n", "a", "l", "y", "z", "e", " ", "t", "h", "e", " ", "s", "e", "n", "t", "i", "m", "e", "n", "t", " ", "o", "f", " ", "t", "h", "i", "s", " ", "f", "i", "n", "a", "n", "c", "i", "a", "l", " ", "n", "e", "w", "s", ":", " ">>

PromptSuffix ==
    <<"\n", "S", "e", "n", "t", "i", "m", "e", "n", "t", ":">>

\* ------------------------------------------------------------------------
\* Model registry
\* ------------------------------------------------------------------------
\* BatchModelComparison.SENTIMENT_MODELS (alias -> backing identifier)
BatchSentimentModels ==
    [a \in {"twitter-roberta", "distilbert-sst2", "finbert"} |->
        CASE a = "twitter-roberta" -> "cardiffnlp/twitter-roberta-base-sentiment-latest"
          [] a = "distilbert-sst2" -> "distilbert-base-uncased-finetuned-sst-2-english"
          [] a = "finbert" -> "yiyanghkust/finbert-tone"]

\* BatchModelComparison.NER_MODELS
BatchNerModels ==
    [a \in {"bert-base-ner", "bert-large-ner"} |->
        CASE a = "bert-base-ner" -> "dslim/bert-base-NER"
          [] a = "bert-large-ner" -> "dslim/bert-large-NER"]

\* ModelComparisonManager.SENTIMENT_MODELS (alias -> (identifier, type))
ManagerSentimentModels ==
    [a \in {"twitter-roberta", "distilbert-sst2", "finbert", "llama-sentiment"} |->
        CASE a = "twitter-roberta" ->
                [id |-> "cardiffnlp/twitter-roberta-base-sentiment-latest", type |-> "transformer"]
          [] a = "distilbert-sst2" ->
                [id |-> "distilbert-base-uncased-finetuned-sst-2-english", type |-> "transformer"]
          [] a = "finbert" -> [id |-> "yiyanghkust/finbert-tone", type |-> "transformer"]
          [] a = "llama-sentiment" -> [id |-> "meta-llama/Llama-2-7b-chat-hf", type |-> "prompt"]]

\* ModelComparisonManager.NER_MODELS
ManagerNerModels ==
    [a \in {"bert-base-ner", "bert-large-ner"} |->
        CASE a = "bert-base-ner" -> "dslim/bert-base-NER"
          [] a = "bert-large-ner" -> "dslim/bert-large-NER"]

\* The aliases a caller may put in a configuration list.  "no-such-model" is
\* in no table; "llama-sentiment" is in the manager's table only.
EngineSentimentChoices == {"twitter-roberta", "distilbert-sst2", "llama-sentiment"}
EngineNerChoices == {"bert-base-ner", "bert-large-ner", "no-such-model"}
ManagerSentimentChoices == {"twitter-roberta", "llama-sentiment", "no-such-model"}
ManagerNerChoices == {"bert-base-ner", "no-such-model"}

AllAliases ==
    EngineSentimentChoices \cup EngineNerChoices \cup ManagerSentimentChoices
        \cup ManagerNerChoices \cup DOMAIN ManagerSentimentModels \cup DOMAIN ManagerNerModels

\* Alias lists of at most MaxAliases entries.  The configuration is a set of
\* aliases (an alias is unique within its family), so no alias is repeated.
AliasLists(S) ==
    {l \in UNION {[1..n -> S] : n \in 0..MaxAliases} :
        \A i, j \in DOMAIN l : i # j => l[i] # l[j]}

\* ------------------------------------------------------------------------
\* The models behind transformers.pipeline.  A loaded model is a
\* deterministic function of the string it receives; which function it is
\* is fixed by the environment (variable oracle).
\* ------------------------------------------------------------------------
CharCode(c) ==
    IF \E i \in DOMAIN LowerChars : LowerChars[i] = LowerChar(c)
    THEN CHOOSE i \in DOMAIN LowerChars : LowerChars[i] = LowerChar(c)
    ELSE 0

\* depends on the length and on the last character of the received string
TextHash(s) == IF s = <<>> THEN 0 ELSE Len(s) + CharCode(s[Len(s)])

ModelOrder ==
    <<"twitter-roberta", "distilbert-sst2", "finbert", "llama-sentiment",
      "bert-base-ner", "bert-large-ner">>

ModelIndex(m) == CHOOSE i \in DOMAIN ModelOrder : ModelOrder[i] = m

\* raw outputs of a text-classification pipeline: top label and confidence
SentimentRawPool ==
    << [label |-> sPositive, score |-> ScoreScale - 5],
       [label |-> S_NEGATIVE, score |-> ScoreScale],
       [label |-> sNeutral, score |-> ScoreScale - 20],
       [label |-> S_Positive, score |-> ScoreScale],
       [label |-> S_LABEL_1, score |-> ScoreScale \div 2],
       [label |-> S_Negative, score |-> 0] >>

\* raw outputs of a token-classification pipeline (aggregation "simple")
NerRawPool ==
    << << [entity_group |-> "ORG", word |-> S_Nvidia], [entity_group |-> "PER", word |-> S_Tesla] >>,
       << [entity_group |-> "ORG", word |-> S_Reuters], [entity_group |-> "ORG", word |-> S_Tesla] >>,
       << [entity_group |-> "ORG", word |-> S_HashTesla], [entity_group |-> "ORG", word |-> S_Tesla],
          [entity_group |-> "ORG", word |-> S_IncPadded] >>,
       << >>,
       << [entity_group |-> "LOC", word |-> S_IBM], [entity_group |-> "ORG", word |-> S_AP],
          [entity_group |-> "ORG", word |-> S_Nvidia] >>,
       << [entity_group |-> "ORG", word |-> S_Company], [entity_group |-> "ORG", word |-> S_IBM] >> >>

\* generated texts of a text-generation pipeline; mentions_positive and
\* mentions_negative record how the text was written
ResponsePool ==
    << [text |-> R_PositiveOutlook, mentions_positive |-> TRUE, mentions_negative |-> FALSE],
       [text |-> S_NEGATIVE, mentions_positive |-> FALSE, mentions_negative |-> TRUE],
       [text |-> R_NotNegative, mentions_positive |-> TRUE, mentions_negative |-> TRUE],
       [text |-> R_NegativeNotPositive, mentions_positive |-> TRUE, mentions_negative |-> TRUE],
       [text |-> R_Mixed, mentions_positive |-> FALSE, mentions_negative |-> FALSE],
       [text |-> R_IsNeutral, mentions_positive |-> FALSE, mentions_negative |-> FALSE],
       [text |-> <<>>, mentions_positive |-> FALSE, mentions_negative |-> FALSE] >>

Oracles == 0..(Len(SentimentRawPool) - 1)

PoolPick(pool, o, m, s) == pool[((TextHash(s) + o + ModelIndex(m)) % Len(pool)) + 1]

\* pipeline("text-classification", ...)(text)[0]
SentimentPipeline(o, m, s) == PoolPick(SentimentRawPool, o, m, s)

\* pipeline("token-classification", ...)(text)
NerPipeline(o, m, s) == PoolPick(NerRawPool, o, m, s)

\* pipeline("text-generation", ...)(prompt)[0]['generated_text']
GenerationPipeline(o, m, s) == PoolPick(ResponsePool, o, m, s).text

\* ------------------------------------------------------------------------
\* Inputs
\* ------------------------------------------------------------------------
\* article texts: a short one, two that share their first 512 characters and
\* differ after them, and one that differs from those at character 512
TextShort == <<"u", "p">>
TextLongB == Rep("a", MaxTextLen) \o <<"b">>
TextLongC == Rep("a", MaxTextLen) \o <<"c", "d">>
TextOther == Rep("a", MaxTextLen - 1) \o <<"b", "b">>

TextPool == {TextShort, TextLongB, TextLongC, TextOther}

Batches == UNION {[1..n -> TextPool] : n \in 0..MaxBatch}

\* raw candidate strings handed to the entity filter
CandidatePool ==
    {S_Reuters, S_Tesla, S_HashTesla, S_IncPadded, S_Co, S_AP, S_Nvidia,
     S_ThomsonReuters, S_Apple, S_Company, S_IBM, S_HashOnly}

CandidateLists == UNION {[1..n -> CandidatePool] : n \in 0..MaxCands}

\* ------------------------------------------------------------------------
\* State
\* ------------------------------------------------------------------------
\* oracle   which deterministic functions the loaded models are
\* engine   the BatchModelComparison object (status "absent" before
\*          construction, "error" when __init__ raised, else "ready")
\* manager  the ModelComparisonManager object
\* loads    per alias, how many times pipeline(...) has loaded its model
\* call     the last call of an entry point: its input, the model
\*          invocations it made (invoked) and what it returned (result)
\* db       the tables of financial_news.db (committed rows)
\* run      run_full_pipeline: where it is, the fetched articles, the batch
\*          results, and what the last save_analysis_to_db call did
VARIABLES oracle, engine, manager, loads, call, db, run

vars == <<oracle, engine, manager, loads, call, db, run>>

EmptyDb == [articles |-> <<>>, analysis_results |-> <<>>]

NoRun == [pc |-> "none"]

AbsentEngine ==
    [status |-> "absent", requested_sentiment |-> <<>>, requested_ner |-> <<>>,
     sentiment_analyzers |-> <<>>, ner_analyzers |-> <<>>]

AbsentManager ==
    [status |-> "absent", requested_sentiment |-> <<>>, requested_ner |-> <<>>,
     sentiment_analyzers |-> <<>>, ner_analyzers |-> <<>>]

NoCall == [op |-> "none"]

Init ==
    /\ oracle \in Oracles
    /\ engine = AbsentEngine
    /\ manager = AbsentManager
    /\ loads = [a \in AllAliases |-> 0]
    /\ call = NoCall
    /\ db = EmptyDb
    /\ run = NoRun

\* ------------------------------------------------------------------------
\* Construction
\* ------------------------------------------------------------------------
\* the longest prefix of names whose aliases are keys of table
RECURSIVE KnownPrefix(_, _)
KnownPrefix(names, table) ==
    IF names = <<>> \/ names[1] \notin DOMAIN table THEN <<>>
    ELSE <<names[1]>> \o KnownPrefix(Tail(names), table)

IsKnown(a, table) == a \in DOMAIN table

KeepKnown(names, table) ==
    LET known(a) == IsKnown(a, table)
    IN  SelectSeq(names, known)

CountIn(a, names) == Cardinality({i \in DOMAIN names : names[i] = a})

\* BatchModelComparison.__init__: the two dict comprehensions load one
\* pipeline per name, in order; an alias that is no key of the table raises
\* KeyError and the engine is not constructed.
EngineInit(sentiment_models, ner_models) ==
    LET s_names == IF sentiment_models = <<>> THEN <<"twitter-roberta">> ELSE sentiment_models
        n_names == IF ner_models = <<>> THEN <<"bert-base-ner">> ELSE ner_models
        s_loaded == KnownPrefix(s_names, BatchSentimentModels)
        s_ok == s_loaded = s_names
        n_loaded == IF s_ok THEN KnownPrefix(n_names, BatchNerModels) ELSE <<>>
        ok == s_ok /\ n_loaded = n_names
    IN  [engine |->
            [status |-> IF ok THEN "ready" ELSE "error",
             requested_sentiment |-> sentiment_models,
             requested_ner |-> ner_models,
             sentiment_analyzers |-> IF ok THEN s_names ELSE <<>>,
             ner_analyzers |-> IF ok THEN n_names ELSE <<>>],
         loaded |-> s_loaded \o n_loaded]

ConstructEngine ==
    /\ engine.status = "absent"
    /\ manager.status = "absent"
    /\ call = NoCall
    /\ \E sentiment_models \in AliasLists(EngineSentimentChoices),
          ner_models \in AliasLists(EngineNerChoices) :
          LET r == EngineInit(sentiment_models, ner_models)
          IN  /\ engine' = r.engine
              /\ loads' = [a \in AllAliases |-> loads[a] + CountIn(a, r.loaded)]
    /\ UNCHANGED <<oracle, manager, call, db, run>>

\* ModelComparisonManager._load_sentiment_models: an alias that is no key of
\* the table is passed over; every type in the table is "transformer" or
\* "prompt", so the `else: continue` branch is never taken.
LoadSentimentModels(model_keys) == KeepKnown(model_keys, ManagerSentimentModels)

\* ModelComparisonManager._load_ner_models
LoadNerModels(model_keys) == KeepKnown(model_keys, ManagerNerModels)

\* ModelComparisonManager.__init__
ManagerInit(sentiment_models, ner_models) ==
    LET s_names == IF sentiment_models = <<>> THEN <<"twitter-roberta">> ELSE sentiment_models
        n_names == IF ner_models = <<>> THEN <<"bert-base-ner">> ELSE ner_models
    IN  [status |-> "ready",
         requested_sentiment |-> sentiment_models,
         requested_ner |-> ner_models,
         sentiment_analyzers |-> LoadSentimentModels(s_names),
         ner_analyzers |-> LoadNerModels(n_names)]

ConstructManager ==
    /\ engine.status = "absent"
    /\ manager.status = "absent"
    /\ call = NoCall
    /\ \E sentiment_models \in AliasLists(ManagerSentimentChoices),
          ner_models \in AliasLists(ManagerNerChoices) :
          LET m == ManagerInit(sentiment_models, ner_models)
          IN  /\ manager' = m
              /\ loads' = [a \in AllAliases |->
                            loads[a] + CountIn(a, m.sentiment_analyzers \o m.ner_analyzers)]
    /\ UNCHANGED <<oracle, engine, call, db, run>>

\* ------------------------------------------------------------------------
\* BatchModelComparison.analyze_batch
\* ------------------------------------------------------------------------
\* variant of CombineResults: entry i is built from the outputs at the mirrored index
CombineResultsMisaligned(texts, sentiment_results_all, ner_results_all) ==
    [i \in 1..Len(texts) |->
        [all_sentiments |->
            [m \in DOMAIN sentiment_results_all |->
                ParseSentiment(sentiment_results_all[m][Len(texts) + 1 - i])],
         all_ner |->
            [m \in DOMAIN ner_results_all |-> ParseNer(ner_results_all[m][Len(texts) + 1 - i])]]]

\* the loop that builds combined_results, one entry per index of texts
CombineResults(texts, sentiment_results_all, ner_results_all) ==
    [i \in 1..Len(texts) |->
        [all_sentiments |->
            [m \in DOMAIN sentiment_results_all |-> ParseSentiment(sentiment_results_all[m][i])],
         all_ner |->
            [m \in DOMAIN ner_results_all |-> ParseNer(ner_results_all[m][i])]]]

\* One call of analyze_batch on a constructed engine.  failing is the set of
\* models whose pipeline raises when invoked.  The sentiment models are
\* invoked first, then the NER models, each with the whole truncated batch;
\* nothing catches an exception, so the first failing model ends the call.
BatchCall(eng, o, texts_in, failing) ==
    LET texts == [i \in DOMAIN texts_in |-> Truncate(texts_in[i])]
        order == eng.sentiment_analyzers \o eng.ner_analyzers
        bad == {k \in DOMAIN order : order[k] \in failing}
        first == IF bad = {} THEN 0 ELSE CHOOSE k \in bad : \A j \in bad : k <= j
        sentiment_results_all ==
            [m \in Range(eng.sentiment_analyzers) |->
                [i \in DOMAIN texts |-> SentimentPipeline(o, m, texts[i])]]
        ner_results_all ==
            [m \in Range(eng.ner_analyzers) |->
                [i \in DOMAIN texts |-> NerPipeline(o, m, texts[i])]]
    IN  IF first # 0
        THEN [op |-> "analyze_batch", texts |-> texts_in, status |-> "raised",
              raised_by |-> order[first],
              invoked |-> [k \in 1..first |-> [model |-> order[k], arg |-> texts]],
              result |-> <<>>]
        ELSE [op |-> "analyze_batch", texts |-> texts_in, status |-> "returned",
              raised_by |-> "none",
              invoked |-> [k \in DOMAIN order |-> [model |-> order[k], arg |-> texts]],
              result |-> CombineResults(texts, sentiment_results_all, ner_results_all)]

AnalyzeBatch ==
    /\ engine.status = "ready"
    /\ call = NoCall
    /\ \E texts \in Batches :
       \E failing \in SUBSET Range(engine.sentiment_analyzers \o engine.ner_analyzers) :
          call' = BatchCall(engine, oracle, texts, failing)
    /\ UNCHANGED <<oracle, engine, manager, loads, db, run>>

\* ------------------------------------------------------------------------
\* Analyzers of the comparison manager
\* ------------------------------------------------------------------------
\* {'error': str(e), 'success': False}
FailureOutcome == [error |-> "model invocation failed", success |-> FALSE]

\* variant of TransformerSentimentAnalyze: the exception is not caught
TransformerSentimentAnalyzeUncaught(o, model, text, raises) ==
    LET analysis_text == Truncate(text)
        result == SentimentPipeline(o, model, analysis_text)
    IN  [arg |-> analysis_text,
         raised |-> raises,
         value |-> [label |-> result.label, score |-> result.score, success |-> TRUE]]

\* TransformerSentimentAnalyzer.analyze; raises: the pipeline call raises
TransformerSentimentAnalyze(o, model, text, raises) ==
    LET analysis_text == Truncate(text)
        result == SentimentPipeline(o, model, analysis_text)
    IN  [arg |-> analysis_text,
         raised |-> FALSE,
         value |-> IF raises THEN FailureOutcome
                   ELSE [label |-> result.label, score |-> result.score, success |-> TRUE]]

\* prompt_template.format(text=analysis_text)
FormatPrompt(analysis_text) == PromptPrefix \o analysis_text \o PromptSuffix

\* PromptBasedSentimentAnalyzer.analyze
PromptSentimentAnalyze(o, model, text, raises) ==
    LET analysis_text == Truncate(text)
        prompt == FormatPrompt(analysis_text)
        generated_text == GenerationPipeline(o, model, prompt)
    IN  [arg |-> prompt,
         raised |-> FALSE,
         value |-> IF raises THEN FailureOutcome
                   ELSE ParseSentimentResponse(generated_text)]

\* TransformerNERAnalyzer.analyze
NerAnalyze(o, model, text, raises) ==
    LET analysis_text == Truncate(text)
        ner_results == NerPipeline(o, model, analysis_text)
        companies == {ner_results[i].word :
                        i \in {j \in DOMAIN ner_results : ner_results[j].entity_group = "ORG"}}
        filtered_companies == FilterCompanies(ListOfSet(companies))
    IN  [arg |-> analysis_text,
         raised |-> FALSE,
         value |-> IF raises THEN FailureOutcome
                   ELSE [companies |-> filtered_companies,
                         count |-> Len(filtered_companies),
                         success |-> TRUE]]

\* analyzer.analyze(text) for a loaded sentiment analyzer of the manager
SentimentAnalyze(o, model, text, raises) ==
    IF ManagerSentimentModels[model].type = "transformer"
    THEN TransformerSentimentAnalyze(o, model, text, raises)
    ELSE PromptSentimentAnalyze(o, model, text, raises)

\* The loop of compare_sentiment_models / compare_ner_models over the loaded
\* analyzers: runs[k] is what analyzer k did; an exception leaving analyze
\* would end the loop.
CompareCall(op, analyzers, runs, text, failing) ==
    LET bad == {k \in DOMAIN analyzers : runs[k].raised}
        first == IF bad = {} THEN 0 ELSE CHOOSE k \in bad : \A j \in bad : k <= j
        done == IF first = 0 THEN Len(analyzers) ELSE first - 1
        reached == IF first = 0 THEN Len(analyzers) ELSE first
    IN  [op |-> op, text |-> text, failing |-> failing,
         status |-> IF first = 0 THEN "returned" ELSE "raised",
         invoked |-> [k \in 1..reached |-> [model |-> analyzers[k], arg |-> runs[k].arg]],
         result |-> [m \in {analyzers[k] : k \in 1..done} |->
                        runs[CHOOSE k \in 1..done : analyzers[k] = m].value]]

\* ModelComparisonManager.compare_sentiment_models
CompareSentimentCall(mgr, o, text, failing) ==
    CompareCall("compare_sentiment_models", mgr.sentiment_analyzers,
                [k \in DOMAIN mgr.sentiment_analyzers |->
                    SentimentAnalyze(o, mgr.sentiment_analyzers[k], text,
                                     mgr.sentiment_analyzers[k] \in failing)],
                text, failing)

\* ModelComparisonManager.compare_ner_models
CompareNerCall(mgr, o, text, failing) ==
    CompareCall("compare_ner_models", mgr.ner_analyzers,
                [k \in DOMAIN mgr.ner_analyzers |->
                    NerAnalyze(o, mgr.ner_analyzers[k], text, mgr.ner_analyzers[k] \in failing)],
                text, failing)

CompareSentimentModels ==
    /\ manager.status = "ready"
    /\ call = NoCall
    /\ \E text \in TextPool :
       \E failing \in SUBSET Range(manager.sentiment_analyzers) :
          call' = CompareSentimentCall(manager, oracle, text, failing)
    /\ UNCHANGED <<oracle, engine, manager, loads, db, run>>

CompareNerModels ==
    /\ manager.status = "ready"
    /\ call = NoCall
    /\ \E text \in TextPool :
       \E failing \in SUBSET Range(manager.ner_analyzers) :
          call' = CompareNerCall(manager, oracle, text, failing)
    /\ UNCHANGED <<oracle, engine, manager, loads, db, run>>

\* ------------------------------------------------------------------------
\* analyze_news_article (llm_analyzer_hf.py); its two pipelines are loaded
\* when the module is imported
\* ------------------------------------------------------------------------
\* label_map.get(sentiment_label, 0.0)
LabelMap(label) ==
    IF label = sNegative THEN 0
    ELSE IF label = sNeutral THEN 1
    ELSE IF label = sPositive THEN 2
    ELSE 0

\* the loop over ner_results in analyze_news_article
ArticleCompanies(ner_results) ==
    LET orgs == {i \in DOMAIN ner_results : ner_results[i].entity_group = "ORG"}
        companies == {CleanName(ner_results[i].word) :
                        i \in {j \in orgs :
                                /\ Len(CleanName(ner_results[j].word)) > 2
                                /\ Lower(CleanName(ner_results[j].word))
                                      \notin {sInc, sLtd, sCorp, sCompany}}}
    IN  ListOfSet(companies)

\* failing is "none", or the pipeline whose call raises; the except clause
\* keeps what results holds at that point
ArticleCall(o, article_text, failing) ==
    LET analysis_text == Truncate(article_text)
        top_sentiment == SentimentPipeline(o, "twitter-roberta", analysis_text)
        sentiment == LabelMap(top_sentiment.label) * top_sentiment.score
        ner_results == NerPipeline(o, "bert-base-ner", analysis_text)
        s_call == [model |-> "twitter-roberta", arg |-> analysis_text]
        n_call == [model |-> "bert-base-ner", arg |-> analysis_text]
    IN  [op |-> "analyze_news_article", text |-> article_text, failing |-> failing,
         status |-> "returned",
         invoked |-> IF failing = "sentiment" THEN <<s_call>> ELSE <<s_call, n_call>>,
         result |-> [sentiment |-> IF failing = "sentiment" THEN 0 ELSE sentiment,
                     companies |-> IF failing = "none" THEN ArticleCompanies(ner_results)
                                   ELSE <<>>]]

AnalyzeNewsArticle ==
    /\ engine.status = "absent"
    /\ manager.status = "absent"
    /\ call = NoCall
    /\ \E article_text \in TextPool, failing \in {"none", "sentiment", "ner"} :
          call' = ArticleCall(oracle, article_text, failing)
    /\ UNCHANGED <<oracle, engine, manager, loads, db, run>>

\* ------------------------------------------------------------------------
\* The entity filter and the generative parser applied on their own
\* ------------------------------------------------------------------------
FilterCompaniesCall ==
    /\ engine.status = "absent"
    /\ manager.status = "absent"
    /\ call = NoCall
    /\ \E companies \in CandidateLists :
          call' = [op |-> "_filter_companies", companies |-> companies,
                   result |-> FilterCompanies(companies)]
    /\ UNCHANGED <<oracle, engine, manager, loads, db, run>>

ParseSentimentResponseCall ==
    /\ engine.status = "absent"
    /\ manager.status = "absent"
    /\ call = NoCall
    /\ \E r \in Range(ResponsePool) :
          call' = [op |-> "_parse_sentiment_response", response |-> r,
                   result |-> ParseSentimentResponse(r.text)]
    /\ UNCHANGED <<oracle, engine, manager, loads, db, run>>

\* the caller is done with the value (or the exception) of the last call
Discard ==
    /\ call # NoCall
    /\ call' = NoCall
    /\ UNCHANGED <<oracle, engine, manager, loads, db, run>>

Next ==
    \/ ConstructEngine
    \/ ConstructManager
    \/ AnalyzeBatch
    \/ CompareSentimentModels
    \/ CompareNerModels
    \/ AnalyzeNewsArticle
    \/ FilterCompaniesCall
    \/ ParseSentimentResponseCall
    \/ Discard

Spec == Init /\ [][Next]_vars

\* ------------------------------------------------------------------------
\* The pipeline and the database (main.py, news_fetcher.py, database.py)
\* ------------------------------------------------------------------------
\* most entries of the News API answer
MaxArticles == 2

\* title[:512] of the Article row
MaxTitleLen == 512

Join(names) ==
    LET RECURSIVE join(_)
        join(k) == IF k = 0 THEN <<>>
                   ELSE IF k = 1 THEN names[1]
                   ELSE join(k - 1) \o <<",">> \o names[k]
    IN  join(Len(names))

Flatten(lists) ==
    LET RECURSIVE flat(_)
        flat(k) == IF k = 0 THEN <<>> ELSE flat(k - 1) \o lists[k]
    IN  flat(Len(lists))

\* entries of data['articles']: one without a description, one with one, one
\* without a title, one whose title is longer than 512 characters
U_First == <<"u", "1">>
U_Second == <<"u", "2">>
U_Third == <<"u", "3">>
U_Fourth == <<"u", "4">>

RawArticlePool ==
    {[title |-> TextShort, description |-> <<>>, url |-> U_First],
     [title |-> S_Tesla, description |-> TextShort, url |-> U_Second],
     [title |-> <<>>, description |-> TextShort, url |-> U_Third],
     [title |-> TextLongB, description |-> <<>>, url |-> U_Fourth]}

RawArticleLists == UNION {[1..n -> RawArticlePool] : n \in 0..MaxArticles}

\* the loop of fetch_financial_news: entries without url or title are
\* skipped, content is "<title>. <description>" stripped
FetchedArticles(raw) ==
    LET keep == SelectSeq(raw, LAMBDA a : a.url # <<>> /\ a.title # <<>>)
    IN  [i \in DOMAIN keep |->
            [title |-> keep[i].title,
             content |-> Strip(keep[i].title \o <<".", " ">> \o keep[i].description),
             url |-> keep[i].url]]

\* the arguments of run_full_pipeline's BatchModelComparison(...)
PipelineSentimentModels == <<"twitter-roberta", "distilbert-sst2">>
PipelineNerModels == <<"bert-base-ner">>

\* a Python value given as analysis_results: a dict (one element of what
\* analyze_batch returns) or a list of such dicts (what analyze_batch returns)
PyDict(d) == [kind |-> "dict", value |-> d]
PyList(l) == [kind |-> "list", value |-> l]

\* the keys of one analyze_batch element, in insertion order
ResultKeys == <<"all_sentiments", "all_ner">>

\* `for res in analysis_results`: the elements of a list, the keys of a dict
IterItems(analysis_results) ==
    IF analysis_results.kind = "list"
    THEN [i \in DOMAIN analysis_results.value |-> PyDict(analysis_results.value[i])]
    ELSE [i \in DOMAIN ResultKeys |-> [kind |-> "str", value |-> ResultKeys[i]]]

\* the AnalysisResult objects the inner loop builds for one res (a dict);
\* the NER result is looked up under the SENTIMENT model's name
AnalysisRows(article_id, res) ==
    LET names == ListOfSet(DOMAIN res.all_sentiments)
    IN  [k \in DOMAIN names |->
            [article_id |-> article_id,
             model_name |-> names[k],
             sentiment |-> res.all_sentiments[names[k]].score,
             ner_entities |->
                Join(IF names[k] \in DOMAIN res.all_ner
                     THEN res.all_ner[names[k]].companies
                     ELSE <<>>)]]

NoSave == [status |-> "none"]

\* the tables after the first session.commit() ("commit to get article.id")
ArticleCommitted(db0, article_row) ==
    [db0 EXCEPT !.articles = Append(@, article_row)]

\* One call of save_analysis_to_db.  fault says which session.commit() the
\* database refuses ("none", "article", "analysis").  The result records the
\* tables before and after, and where an exception was raised.
SaveCall(db0, article_data, analysis_results, fault) ==
    LET article_row ==
            [id |-> Len(db0.articles) + 1,
             title |-> SubSeq(article_data.title, 1,
                              Min(Len(article_data.title), MaxTitleLen)),
             content |-> article_data.content]
        items == IterItems(analysis_results)
        type_error == \E i \in DOMAIN items : items[i].kind # "dict"
        rows == IF type_error THEN <<>>
                ELSE Flatten([i \in DOMAIN items |->
                                AnalysisRows(article_row.id, items[i].value)])
        index_error == analysis_results.kind = "list" /\ analysis_results.value = <<>>
        raised == IF fault = "article" THEN "article_commit"
                  ELSE IF type_error THEN "building_rows"
                  ELSE IF fault = "analysis" THEN "analysis_commit"
                  ELSE IF index_error THEN "report"
                  ELSE "none"
        db1 == ArticleCommitted(db0, article_row)
        db2 == [db1 EXCEPT !.analysis_results = @ \o rows]
    IN  [status |-> IF raised = "none" THEN "saved" ELSE "error",
         raised |-> raised,
         fault |-> fault,
         article |-> article_data,
         analysis |-> analysis_results,
         article_id |-> article_row.id,
         db_before |-> db0,
         db |-> CASE raised = "article_commit" -> db0
                  [] raised \in {"building_rows", "analysis_commit"} -> db1
                  [] OTHER -> db2]

DbFaults == {"none", "article", "analysis"}

InitPipeline ==
    /\ oracle \in Oracles
    /\ engine = AbsentEngine
    /\ manager = AbsentManager
    /\ loads = [a \in AllAliases |-> 0]
    /\ call = NoCall
    /\ db = EmptyDb
    /\ run = [pc |-> "start", articles |-> <<>>, batch_results |-> <<>>,
              handed |-> <<>>, last |-> NoSave]

\* articles = fetch_financial_news(): without an API key the call raises and
\* the pipeline ends; a request error gives the empty list
FetchFinancialNews ==
    /\ run.pc = "start"
    /\ \E outcome \in {"no_api_key", "request_error", "answer"} :
       \E raw \in RawArticleLists :
          run' = [run EXCEPT
                    !.pc = IF outcome = "no_api_key" THEN "crashed" ELSE "fetched",
                    !.articles = IF outcome = "answer" THEN FetchedArticles(raw) ELSE <<>>]
    /\ UNCHANGED <<oracle, engine, manager, loads, call, db>>

\* batch_analyzer = BatchModelComparison(...)
PipelineConstruct ==
    /\ run.pc = "fetched"
    /\ LET r == EngineInit(PipelineSentimentModels, PipelineNerModels)
       IN  /\ engine' = r.engine
           /\ loads' = [a \in AllAliases |-> loads[a] + CountIn(a, r.loaded)]
    /\ run' = [run EXCEPT !.pc = "constructed"]
    /\ UNCHANGED <<oracle, manager, call, db>>

\* batch_results = batch_analyzer.analyze_batch(texts); an exception of a
\* model is not caught by run_full_pipeline
PipelineAnalyze ==
    /\ run.pc = "constructed"
    /\ \E failing \in SUBSET Range(engine.sentiment_analyzers \o engine.ner_analyzers) :
          LET texts == [i \in DOMAIN run.articles |-> run.articles[i].content]
              c == BatchCall(engine, oracle, texts, failing)
          IN  /\ call' = c
              /\ run' = [run EXCEPT
                           !.pc = IF c.status = "returned" THEN "saving" ELSE "crashed",
                           !.batch_results = c.result]
    /\ UNCHANGED <<oracle, engine, manager, loads, db>>

\* one round of `for article, result in zip(articles, batch_results)`:
\* save_analysis_to_db(article, result) with ONE element of batch_results
PipelineSave ==
    /\ run.pc = "saving"
    /\ Len(run.handed) < Min(Len(run.articles), Len(run.batch_results))
    /\ \E fault \in DbFaults :
          LET k == Len(run.handed) + 1
              s == SaveCall(db, run.articles[k], PyDict(run.batch_results[k]), fault)
          IN  /\ db' = s.db
              /\ run' = [run EXCEPT !.handed = Append(@, s), !.last = s]
    /\ UNCHANGED <<oracle, engine, manager, loads, call>>

\* the loop is exhausted: "Pipeline run completed!"
PipelineComplete ==
    /\ run.pc = "saving"
    /\ Len(run.handed) = Min(Len(run.articles), Len(run.batch_results))
    /\ run' = [run EXCEPT !.pc = "done"]
    /\ UNCHANGED <<oracle, engine, manager, loads, call, db>>

\* save_analysis_to_db called as its docstring says, with the whole list
\* analyze_batch returned for the article's text (or an empty list)
SaveAnalysisToDb ==
    /\ run.pc = "start"
    /\ \E raw \in RawArticleLists, fault \in DbFaults, empty \in BOOLEAN :
          /\ FetchedArticles(raw) # <<>>
          /\ LET article == FetchedArticles(raw)[1]
                 eng == EngineInit(PipelineSentimentModels, PipelineNerModels).engine
                 results == IF empty THEN <<>>
                            ELSE BatchCall(eng, oracle, <<article.content>>, {}).result
                 s == SaveCall(db, article, PyList(results), fault)
             IN  /\ db' = s.db
                 /\ run' = [run EXCEPT !.pc = "called", !.articles = <<article>>,
                                       !.batch_results = results, !.last = s]
    /\ UNCHANGED <<oracle, engine, manager, loads, call>>

NextPipeline ==
    \/ FetchFinancialNews
    \/ PipelineConstruct
    \/ PipelineAnalyze
    \/ PipelineSave
    \/ PipelineComplete
    \/ SaveAnalysisToDb

SpecPipeline == InitPipeline /\ [][NextPipeline]_vars

\* ------------------------------------------------------------------------
\* Shared vocabulary of the properties
\* ------------------------------------------------------------------------
ActivatedSentiment == Range(engine.sentiment_analyzers)

ActivatedNer == Range(engine.ner_analyzers)

BatchReturned == call.op = "analyze_batch" /\ call.status = "returned"

\* some requested alias is no key of the model table
HasUnknown(names, table) == \E k \in DOMAIN names : names[k] \notin DOMAIN table

\* s and t have the same first MaxTextLen characters (position by position)
SharePrefix(s, t) ==
    \A k \in 1..MaxTextLen :
        /\ (k <= Len(s)) = (k <= Len(t))
        /\ k <= Len(s) => s[k] = t[k]

\* ------------------------------------------------------------------------
\* C1: when every batch invocation succeeds, analyze_batch returns exactly
\* one result per input text, and the result at index i holds, for every
\* activated model, the parse of that model's raw output for the text at
\* index i.
\* ------------------------------------------------------------------------
C1_BatchIndexAligned ==
    (call.op = "analyze_batch" /\ call.raised_by = "none") =>
        /\ call.status = "returned"
        /\ Len(call.result) = Len(call.texts)
        /\ \A i \in DOMAIN call.texts :
            /\ DOMAIN call.result[i].all_sentiments = ActivatedSentiment
            /\ DOMAIN call.result[i].all_ner = ActivatedNer
            /\ \A m \in ActivatedSentiment :
                  call.result[i].all_sentiments[m] =
                      ParseSentiment(SentimentPipeline(oracle, m, Truncate(call.texts[i])))
            /\ \A m \in ActivatedNer :
                  call.result[i].all_ner[m] =
                      ParseNer(NerPipeline(oracle, m, Truncate(call.texts[i])))

\* a returned batch of two texts whose results differ, with two sentiment models
C1_Witness ==
    /\ BatchReturned
    /\ Len(call.texts) = 2
    /\ Len(engine.sentiment_analyzers) = 2
    /\ call.result[1] # call.result[2]

\* ------------------------------------------------------------------------
\* C2: if the batch invocation of an activated model raises, analyze_batch
\* still returns one result per article; the failing model's slot holds a
\* failure marker and the other models' slots hold their valid results.
\* ------------------------------------------------------------------------
C2_PartialFailureIsolated ==
    (call.op = "analyze_batch" /\ call.raised_by # "none") =>
        /\ call.status = "returned"
        /\ Len(call.result) = Len(call.texts)
        /\ \A i \in DOMAIN call.texts :
            /\ \A m \in ActivatedSentiment \ {call.raised_by} :
                  call.result[i].all_sentiments[m] =
                      ParseSentiment(SentimentPipeline(oracle, m, Truncate(call.texts[i])))
            /\ \A m \in ActivatedNer \ {call.raised_by} :
                  call.result[i].all_ner[m] =
                      ParseNer(NerPipeline(oracle, m, Truncate(call.texts[i])))

\* ------------------------------------------------------------------------
\* Truncation: the call that is in `call`, made again with text i replaced
\* by t
\* ------------------------------------------------------------------------
CallAgain(i, t) ==
    CASE call.op = "analyze_batch" ->
            BatchCall(engine, oracle, [call.texts EXCEPT ![i] = t],
                      IF call.raised_by = "none" THEN {} ELSE {call.raised_by})
      [] call.op = "compare_sentiment_models" ->
            CompareSentimentCall(manager, oracle, t, call.failing)
      [] call.op = "compare_ner_models" ->
            CompareNerCall(manager, oracle, t, call.failing)
      [] call.op = "analyze_news_article" ->
            ArticleCall(oracle, t, call.failing)

AnalysisOps ==
    {"analyze_batch", "compare_sentiment_models", "compare_ner_models", "analyze_news_article"}

SingleTextOps == AnalysisOps \ {"analyze_batch"}

\* the texts of the call in `call`, by position
CallTexts == IF call.op = "analyze_batch" THEN call.texts ELSE <<call.text>>

\* only the first 512 characters influence what the models receive and what
\* the entry point returns
PrefixDecides ==
    call.op \in AnalysisOps =>
        \A i \in DOMAIN CallTexts : \A t \in TextPool :
            SharePrefix(CallTexts[i], t) =>
                /\ CallAgain(i, t).invoked = call.invoked
                /\ CallAgain(i, t).status = call.status
                /\ CallAgain(i, t).result = call.result

IsPromptModel(m) ==
    m \in DOMAIN ManagerSentimentModels /\ ManagerSentimentModels[m].type = "prompt"

\* every string a model receives in the call in `call` has at most n characters
ReceivedAtMost(n) ==
    /\ call.op = "analyze_batch" =>
          \A k \in DOMAIN call.invoked : \A i \in DOMAIN call.invoked[k].arg :
              Len(call.invoked[k].arg[i]) <= n
    /\ call.op \in SingleTextOps =>
          \A k \in DOMAIN call.invoked : Len(call.invoked[k].arg) <= n

\* C3 as amended: for texts that agree on their first 512 characters every
\* entry point passes the same strings to the models and returns the same
\* result; a classification or entity model never receives more than 512
\* characters, and the generative model receives the prompt template with at
\* most the first 512 characters of the text embedded.
C3_TruncationAmended ==
    /\ PrefixDecides
    /\ call.op = "analyze_batch" => ReceivedAtMost(MaxTextLen)
    /\ call.op \in SingleTextOps =>
          \A k \in DOMAIN call.invoked :
              IF call.op = "compare_sentiment_models" /\ IsPromptModel(call.invoked[k].model)
              THEN \E n \in 0..MaxTextLen :
                      /\ n <= Len(call.text)
                      /\ call.invoked[k].arg =
                            PromptPrefix \o SubSeq(call.text, 1, n) \o PromptSuffix
              ELSE Len(call.invoked[k].arg) <= MaxTextLen

\* the generative model was given a text of more than 512 characters that
\* shares its first 512 characters with another text
C3_Witness ==
    /\ call.op = "compare_sentiment_models"
    /\ Len(call.text) > MaxTextLen
    /\ \E k \in DOMAIN call.invoked : call.invoked[k].model = "llama-sentiment"
    /\ \E t \in TextPool : t # call.text /\ SharePrefix(call.text, t)

\* C3 as stated: texts that agree on their first 512 characters get the same
\* model inputs and results, and no model ever receives a text longer than
\* 512 characters.
C3_TruncationOriginal ==
    /\ PrefixDecides
    /\ ReceivedAtMost(MaxTextLen)

\* ------------------------------------------------------------------------
\* C4: the output of the entity filter holds no name of length <= 2 after
\* cleaning, no generic corporate term, no name containing a news-source
\* token, and no name twice.
\* ------------------------------------------------------------------------
C4_FilterOutputClean ==
    call.op = "_filter_companies" =>
        /\ \A k \in DOMAIN call.result :
            /\ Len(Strip(RemoveHash(call.result[k]))) > 2
            /\ Lower(call.result[k]) \notin {sInc, sLtd, sCorp, sCompany, sCo}
            /\ \A src \in NEWS_SOURCE_BLOCKLIST : ~Contains(Lower(call.result[k]), src)
        /\ \A j, k \in DOMAIN call.result : j # k => call.result[j] # call.result[k]

\* the filter was given "Reuters" and a real company and kept the company only
C4_Witness ==
    /\ call.op = "_filter_companies"
    /\ \E j, k \in DOMAIN call.companies :
          call.companies[j] = S_Reuters /\ call.companies[k] = S_HashTesla
    /\ call.result = <<S_Tesla>>

\* ------------------------------------------------------------------------
\* C5: no company that analyze_batch returns, for any article and entity
\* model, is a news-source denylist token (such as "Reuters").
\* ------------------------------------------------------------------------
C5_BatchDenylist ==
    BatchReturned =>
        \A i \in DOMAIN call.result : \A m \in ActivatedNer :
            \A k \in DOMAIN call.result[i].all_ner[m].companies :
                Lower(call.result[i].all_ner[m].companies[k]) \notin NEWS_SOURCE_BLOCKLIST

\* ------------------------------------------------------------------------
\* C6: in every result of analyze_batch a raw label "positive" with
\* confidence c gives score +c, "negative" gives -c and "neutral" gives 0,
\* whatever the case of the label, and every score lies in [-1, 1].
\* ------------------------------------------------------------------------
C6_ScoreNormalized ==
    BatchReturned =>
        \A i \in DOMAIN call.result : \A m \in ActivatedSentiment :
            LET raw == SentimentPipeline(oracle, m, Truncate(call.texts[i]))
                out == call.result[i].all_sentiments[m]
            IN  /\ raw.score \in 0..ScoreScale
                /\ Lower(raw.label) = sPositive => out.score = raw.score
                /\ Lower(raw.label) = sNegative => out.score = -raw.score
                /\ Lower(raw.label) = sNeutral => out.score = 0
                /\ out.score \in (-ScoreScale)..ScoreScale

\* a raw label in upper case, "NEGATIVE" with confidence 1, came out as -1
C6_Witness ==
    /\ BatchReturned
    /\ \E i \in DOMAIN call.result : \E m \in ActivatedSentiment :
          /\ SentimentPipeline(oracle, m, Truncate(call.texts[i])).label = S_NEGATIVE
          /\ call.result[i].all_sentiments[m].score = -ScoreScale

\* ------------------------------------------------------------------------
\* C7: constructing an engine or a manager with an alias that is in no
\* model table fails; construction never succeeds with fewer loaded
\* analyzers than requested aliases.
\* ------------------------------------------------------------------------
C7_UnknownAliasFails ==
    /\ (/\ engine.status # "absent"
        /\ \/ HasUnknown(engine.requested_sentiment, BatchSentimentModels)
           \/ HasUnknown(engine.requested_ner, BatchNerModels))
          => engine.status = "error"
    /\ (/\ manager.status # "absent"
        /\ \/ HasUnknown(manager.requested_sentiment, ManagerSentimentModels)
           \/ HasUnknown(manager.requested_ner, ManagerNerModels))
          => manager.status = "error"
    /\ manager.status = "ready" =>
          /\ Len(manager.sentiment_analyzers) >= Len(manager.requested_sentiment)
          /\ Len(manager.ner_analyzers) >= Len(manager.requested_ner)

\* ------------------------------------------------------------------------
\* C8: when the model call of an analyzer raises, its analyze returns
\* {success: False, error} and compare_sentiment_models / compare_ner_models
\* still return one entry per loaded analyzer, the entries of the analyzers
\* that did not fail being their successful results.
\* ------------------------------------------------------------------------
C8_AnalyzerFailureIsolated ==
    /\ call.op = "compare_sentiment_models" =>
        /\ call.status = "returned"
        /\ DOMAIN call.result = Range(manager.sentiment_analyzers)
        /\ \A m \in DOMAIN call.result :
              IF m \in call.failing
              THEN /\ call.result[m].success = FALSE
                   /\ DOMAIN call.result[m] = {"error", "success"}
              ELSE /\ call.result[m].success = TRUE
                   /\ call.result[m] = SentimentAnalyze(oracle, m, call.text, FALSE).value
    /\ call.op = "compare_ner_models" =>
        /\ call.status = "returned"
        /\ DOMAIN call.result = Range(manager.ner_analyzers)
        /\ \A m \in DOMAIN call.result :
              IF m \in call.failing
              THEN /\ call.result[m].success = FALSE
                   /\ DOMAIN call.result[m] = {"error", "success"}
              ELSE /\ call.result[m].success = TRUE
                   /\ call.result[m] = NerAnalyze(oracle, m, call.text, FALSE).value

\* of two loaded sentiment analyzers the first failed and the second did not
C8_Witness ==
    /\ call.op = "compare_sentiment_models"
    /\ manager.sentiment_analyzers = <<"twitter-roberta", "llama-sentiment">>
    /\ call.failing = {"twitter-roberta"}
    /\ call.result["twitter-roberta"].success = FALSE
    /\ call.result["llama-sentiment"].success = TRUE

\* ------------------------------------------------------------------------
\* C9: the generative parser succeeds on every response; the label is
\* positive if the response mentions "positive" (also when it mentions
\* "negative" too), else negative if it mentions "negative", else neutral
\* with confidence 0.5.
\* ------------------------------------------------------------------------
C9_ParserTotalPrioritised ==
    call.op = "_parse_sentiment_response" =>
        /\ call.result.success = TRUE
        /\ call.result.label =
              IF call.response.mentions_positive THEN sPositive
              ELSE IF call.response.mentions_negative THEN sNegative
              ELSE sNeutral
        /\ call.result.label = sNeutral => 2 * call.result.score \in {ScoreScale - 1, ScoreScale}

\* a response that starts with "Negative" and mentions "positive" later
C9_Witness ==
    /\ call.op = "_parse_sentiment_response"
    /\ call.response.text = R_NegativeNotPositive
    /\ call.result.label = sPositive

\* ------------------------------------------------------------------------
\* C10: every activated model is loaded exactly once, at construction, and
\* during one analyze_batch call every activated model is invoked exactly
\* once, with the whole truncated batch; the number of invocations equals
\* the number of activated models.
\* ------------------------------------------------------------------------
C10_EachModelInvokedOnce ==
    call.op = "analyze_batch" =>
        /\ \A m \in ActivatedSentiment \cup ActivatedNer :
            /\ loads[m] = 1
            /\ Cardinality({k \in DOMAIN call.invoked : call.invoked[k].model = m}) = 1
        /\ Len(call.invoked) = Cardinality(ActivatedSentiment \cup ActivatedNer)
        /\ \A k \in DOMAIN call.invoked :
              call.invoked[k].arg = [i \in DOMAIN call.texts |-> Truncate(call.texts[i])]

\* ------------------------------------------------------------------------
\* C11: analyze_news_article returns a sentiment score in the range -1 to 1
\* for every article text and every label and confidence (in [0, 1]) that
\* the sentiment model returns.
\* ------------------------------------------------------------------------
C11_ArticleScoreInRange ==
    call.op = "analyze_news_article" =>
        /\ SentimentPipeline(oracle, "twitter-roberta", Truncate(call.text)).score
              \in 0..ScoreScale
        /\ call.result.sentiment \in (-ScoreScale)..ScoreScale

\* ------------------------------------------------------------------------
\* Vocabulary of the pipeline properties
\* ------------------------------------------------------------------------
\* the committed AnalysisResult rows of one article row for one model
RowsOf(article_id, model_name) ==
    {j \in DOMAIN db.analysis_results :
        /\ db.analysis_results[j].article_id = article_id
        /\ db.analysis_results[j].model_name = model_name}

\* the save loop ran to its end and the database refused no commit
PipelineDone ==
    /\ run.pc = "done"
    /\ \A k \in DOMAIN run.handed : run.handed[k].fault = "none"

\* article k went to save_analysis_to_db together with element k of
\* batch_results
HandedOwnResult ==
    /\ Len(run.handed) = Len(run.articles)
    /\ \A k \in DOMAIN run.handed :
          /\ run.handed[k].article = run.articles[k]
          /\ run.handed[k].analysis.value = run.batch_results[k]

\* article k has its row, and for each activated sentiment model exactly one
\* AnalysisResult row, with the score element k of batch_results gives it
DbHoldsAnalyses ==
    /\ Len(db.articles) = Len(run.articles)
    /\ \A k \in DOMAIN run.articles :
          /\ db.articles[k].content = run.articles[k].content
          /\ \A m \in ActivatedSentiment :
                /\ Cardinality(RowsOf(db.articles[k].id, m)) = 1
                /\ \A j \in RowsOf(db.articles[k].id, m) :
                      db.analysis_results[j].sentiment =
                          run.batch_results[k].all_sentiments[m].score

\* ------------------------------------------------------------------------
\* C12: when run_full_pipeline has finished its save loop, every fetched
\* article was handed to save_analysis_to_db paired with its own
\* analyze_batch result, and the database holds, for every article, its
\* article row and exactly one AnalysisResult row per activated sentiment
\* model carrying that model's score for that article.
\* ------------------------------------------------------------------------
C12_PipelinePersistsAnalyses ==
    PipelineDone => (HandedOwnResult /\ DbHoldsAnalyses)

\* ------------------------------------------------------------------------
\* C13: save_analysis_to_db is atomic per article: when an exception is
\* raised while the analysis rows are built or written, the database is
\* left as it was before the call, so no article row is persisted without
\* its analysis rows.
\* ------------------------------------------------------------------------
C13_SaveAtomic ==
    (run.pc \in {"saving", "done", "called"} /\ run.last # NoSave) =>
        (run.last.raised \in {"building_rows", "analysis_commit"}
            => db = run.last.db_before)

=============================================================================
